---- MODULE Spec2Model ----
(***************************************************************************)
(* Model of scripts/export-mcp-so.py: the McpSoExporter class (record      *)
(* extraction, deduplication, the multi-page loop, save_data, run) and     *)
(* main().                                                                 *)
(*                                                                         *)
(* Python values are modelled as follows.  A dict is a function whose      *)
(* domain is its set of keys.  A str is a TLA+ string, except for hrefs,   *)
(* which are sequences of tokens so that strip('/') and split('/') can be  *)
(* computed.  JSON null and an unhashable JSON value (a list) are the      *)
(* sentinels PyNone and PyList.  A list element that is not a dict is the  *)
(* one-field function NonDict(v).                                          *)
(***************************************************************************)
EXTENDS Integers, Sequences, FiniteSets, TLC

VARIABLES
    \* deduplication passes on their own
    dIn, dPage, dFinal, dPhase,
    \* one anchor through the loop body of extract_servers_from_page
    href, hRec, hPhase,
    \* extract_servers_from_page on one page
    xPage, xResult, xPhase,
    \* main(): the command line
    mode, max_pages, output,
    \* main(): position, exception in flight, what main caught, exit status
    pc, exc, caught, exitStatus,
    \* the exporter: self.driver, self.servers, navigate_all_pages' counter
    driver, servers, current_page,
    \* the working directory, the interrupts delivered so far, where the last
    \* one arrived and what self.servers held then
    files, interrupts, interruptedAt, accumulated,
    \* history: the extractions of the multi-page loop, the pages asked of
    \* the browser and how the last one was asked
    extracted, requested, navigatedBy

dvars == <<dIn, dPage, dFinal, dPhase>>
hvars == <<href, hRec, hPhase>>
xvars == <<xPage, xResult, xPhase>>
rvars == <<mode, max_pages, output, pc, exc, caught, exitStatus, driver,
           servers, current_page, files, interrupts, interruptedAt, accumulated,
           extracted, requested, navigatedBy>>
vars == <<dvars, hvars, xvars, rvars>>

NoFile == [exists |-> FALSE, complete |-> FALSE, data |-> <<>>]

(***************************************************************************)
(* Bounds                                                                  *)
(***************************************************************************)
MaxLen == 3
MaxHrefLen == 6
MaxAnchors == 2
MaxScripts == 2
MaxPages == 2
MaxInterrupts == 1

(***************************************************************************)
(* Python values                                                           *)
(***************************************************************************)
Absent == "<absent>"
PyNone == "<null>"
PyList == "<list>"

\* bool(v) for the values of the model
Truthy(v) == v \notin {"", PyNone}

\* hash(v) raises TypeError
Unhashable(v) == v = PyList

\* the dict holding the fields of fv that are set
FromFields(fv) == [f \in {k \in DOMAIN fv : fv[k] # Absent} |-> fv[f]]

NonDict(v) == [nondict |-> v]
IsDict(x) == "nondict" \notin DOMAIN x

\* all sequences over S of length at most n
SeqsUpTo(S, n) == UNION {[1..k -> S] : k \in 0..n}

(***************************************************************************)
(* Deduplication (lines 109-118 and 177-185)                               *)
(***************************************************************************)
\* server.get('url', server.get('name', ''))
\* the key a fallback on falsy values would give: url or name or ''
KeyTruthyUrl(server) ==
    IF "url" \in DOMAIN server /\ Truthy(server["url"]) THEN server["url"]
    ELSE IF "name" \in DOMAIN server /\ Truthy(server["name"]) THEN server["name"]
    ELSE ""

Key(server) ==
    IF "url" \in DOMAIN server THEN server["url"]
    ELSE IF "name" \in DOMAIN server THEN server["name"]
    ELSE ""

\* the condition of line 114 / 183
KeepAlways(key, seen) == Truthy(key)

Keep(key, seen) == Truthy(key) /\ key \notin seen

\* the for loop of lines 112-116 / 181-185, from index i on
RECURSIVE DedupeLoop(_, _, _, _)
DedupeLoop(srvs, i, seen, unique) ==
    IF i > Len(srvs) THEN unique
    ELSE LET key == Key(srvs[i]) IN
         IF Keep(key, seen)
         THEN DedupeLoop(srvs, i + 1, seen \cup {key}, Append(unique, srvs[i]))
         ELSE DedupeLoop(srvs, i + 1, seen, unique)

\* the loop raises AttributeError on an element without .get and TypeError
\* on a truthy unhashable key; either aborts the whole pass
DedupeRaises(srvs) ==
    \E i \in 1..Len(srvs) :
        \/ ~IsDict(srvs[i])
        \/ /\ IsDict(srvs[i])
           /\ Truthy(Key(srvs[i]))
           /\ Unhashable(Key(srvs[i]))

DedupeSkipLast(srvs) ==
    IF Len(srvs) = 0 THEN <<>>
    ELSE DedupeLoop(SubSeq(srvs, 1, Len(srvs) - 1), 1, {}, <<>>)

\* lines 110-118: the per-page pass of extract_servers_from_page
UniqueServers(srvs) == DedupeLoop(srvs, 1, {}, <<>>)

\* lines 178-185: the final pass of save_data
SaveUnique(srvs) == DedupeLoop(srvs, 1, {}, <<>>)


(***************************************************************************)
(* extract_servers_from_page (lines 47-118)                                *)
(***************************************************************************)
\* the text of an href given as tokens
RECURSIVE Join(_)
Join(ts) == IF ts = <<>> THEN "" ELSE Head(ts) \o Join(Tail(ts))

\* href.strip('/')
RECURSIVE Strip(_)
Strip(ts) ==
    IF ts = <<>> THEN <<>>
    ELSE IF Head(ts) = "/" THEN Strip(Tail(ts))
    ELSE IF ts[Len(ts)] = "/" THEN Strip(SubSeq(ts, 1, Len(ts) - 1))
    ELSE ts

\* str.split('/'): ts from token i on, cur the part being read
RECURSIVE SplitLoop(_, _, _, _)
SplitLoop(ts, i, cur, acc) ==
    IF i > Len(ts) THEN Append(acc, cur)
    ELSE IF ts[i] = "/" THEN SplitLoop(ts, i + 1, "", Append(acc, cur))
    ELSE SplitLoop(ts, i + 1, cur \o ts[i], acc)

Split(ts) == SplitLoop(ts, 1, "", <<>>)

\* line 53: x and '/server/' in x
IsServerLink(h) ==
    /\ h # <<>>
    /\ \E i \in 1..(Len(h) - 2) :
           h[i] = "/" /\ h[i + 1] = "server" /\ h[i + 2] = "/"

\* line 67
AbsoluteUrl(h) ==
    IF Len(h) > 0 /\ h[1] \in {"http:", "https:"}
    THEN Join(h)
    ELSE "https://mcp.so" \o Join(h)

\* lines 82-87: the first code block naming an install command
RECURSIVE InstallCommand(_)
InstallCommand(codes) ==
    IF codes = <<>> THEN Absent
    ELSE IF Head(codes) \in {"npx a", "npm install a", "uvx a"} THEN Head(codes)
    ELSE InstallCommand(Tail(codes))

SlugFieldsSwapped(url_parts) ==
    IF Len(url_parts) >= 3
    THEN [slug |-> url_parts[Len(url_parts)],
          authorFromUrl |-> url_parts[Len(url_parts) - 1]]
    ELSE [slug |-> Absent, authorFromUrl |-> Absent]

\* lines 91-93
SlugFields(url_parts) ==
    IF Len(url_parts) >= 3
    THEN [slug |-> url_parts[Len(url_parts) - 1],
          authorFromUrl |-> url_parts[Len(url_parts)]]
    ELSE [slug |-> Absent, authorFromUrl |-> Absent]

NoContainer == [found |-> FALSE]

\* lines 65-93: the record of one link
AnchorRecord(link) ==
    LET c == link.container
        sf == SlugFields(Split(Strip(link.href)))
    IN FromFields(
        [name |-> link.text,
         url |-> AbsoluteUrl(link.href),
         description |-> IF c.found THEN c.desc ELSE Absent,
         author |-> IF c.found THEN c.author ELSE Absent,
         installCommand |-> IF c.found THEN InstallCommand(c.codes) ELSE Absent,
         slug |-> sf.slug,
         authorFromUrl |-> sf.authorFromUrl])

\* lines 53-95
RECURSIVE AnchorServers(_)
AnchorServers(anchors) ==
    IF anchors = <<>> THEN <<>>
    ELSE LET link == Head(anchors) IN
         IF ~IsServerLink(link.href) \/ link.href = <<"/", "servers">>
         THEN AnchorServers(Tail(anchors))
         ELSE <<AnchorRecord(link)>> \o AnchorServers(Tail(anchors))

\* JSON values of the __NEXT_DATA__ envelope
JDict(d) == [t |-> "dict", d |-> d]
JList(l) == [t |-> "list", l |-> l]
JStr(str) == [t |-> "str", s |-> str]
JNull == [t |-> "null"]
JNum == [t |-> "num"]

\* key in j: "yes", "no" or "raise" (TypeError on None and numbers); the
\* lists and strings of the model never hold an envelope key
In(key, j) ==
    IF j.t = "dict" THEN (IF key \in DOMAIN j.d THEN "yes" ELSE "no")
    ELSE IF j.t \in {"list", "str"} THEN "no"
    ELSE "raise"

\* a one-character-per-element view of a str, and the keys of a dict
Chars(str) == [i \in 1..Len(str) |-> NonDict("char")]
KeysSeq(d) ==
    LET ks == CHOOSE q \in [1..Cardinality(DOMAIN d) -> DOMAIN d] :
                  \A i, j \in DOMAIN q : i # j => q[i] # q[j]
    IN [i \in DOMAIN ks |-> NonDict(ks[i])]

\* list.extend(sv): the elements added, or a TypeError
ExtendWith(sv) ==
    IF sv.t = "list" THEN [raised |-> FALSE, items |-> sv.l]
    ELSE IF sv.t = "dict" THEN [raised |-> FALSE, items |-> KeysSeq(sv.d)]
    ELSE IF sv.t = "str" THEN [raised |-> FALSE, items |-> Chars(sv.s)]
    ELSE [raised |-> TRUE, items |-> <<>>]

\* lines 100-107: what one script block appends to servers; every
\* exception raised inside the try is swallowed
BlockServers(script) ==
    IF ~script.parses THEN <<>>
    ELSE LET data == script.data IN
         IF In("props", data) # "yes" THEN <<>>
         ELSE IF In("pageProps", data.d["props"]) # "yes" THEN <<>>
         ELSE IF In("servers", data.d["props"].d["pageProps"]) # "yes" THEN <<>>
         ELSE ExtendWith(data.d["props"].d["pageProps"].d["servers"]).items

\* lines 98-107
RECURSIVE ScriptServers(_)
ScriptServers(scripts) ==
    IF scripts = <<>> THEN <<>>
    ELSE BlockServers(Head(scripts)) \o ScriptServers(Tail(scripts))

\* lines 49-107: servers before the deduplication
Collected(page) == AnchorServers(page.anchors) \o ScriptServers(page.scripts)

\* lines 47-118: the value returned, or the exception raised by the
\* deduplication loop, which no try encloses
ExtractServers(page) ==
    LET srvs == Collected(page) IN
    IF DedupeRaises(srvs)
    THEN [raised |-> TRUE, servers |-> <<>>]
    ELSE [raised |-> FALSE, servers |-> UniqueServers(srvs)]

(***************************************************************************)
(* The deduplication passes on arbitrary record sequences                  *)
(***************************************************************************)
UrlVals == {Absent, "", "k1", "k2"}
NameVals == {Absent, "", "k1"}

MkRec(u, n) == FromFields([url |-> u, name |-> n])

RecordPool == {MkRec(u, n) : u \in UrlVals, n \in NameVals}

DInit ==
    /\ dIn \in SeqsUpTo(RecordPool, MaxLen)
    /\ dPage = <<>>
    /\ dFinal = <<>>
    /\ dPhase = "input"
    \* the rest of the program is not exercised
    /\ href = <<>> /\ hRec = <<>> /\ hPhase = "idle"
    /\ xPage = [anchors |-> <<>>, scripts |-> <<>>]
    /\ xResult = [raised |-> FALSE, servers |-> <<>>]
    /\ xPhase = "idle"
    /\ mode = "all" /\ max_pages = 0 /\ output = "mcp-so-servers.json"
    /\ pc = "idle" /\ exc = "none" /\ caught = "none" /\ exitStatus = 0
    /\ driver = "none" /\ servers = <<>> /\ current_page = 0
    /\ files = [f \in {"mcp-so-servers.json", "mcp-so-partial.json", "out.json"}
                    |-> NoFile]
    /\ interrupts = 0 /\ interruptedAt = "nowhere" /\ accumulated = <<>>
    /\ extracted = <<>> /\ requested = <<>> /\ navigatedBy = "none"

\* the per-page pass at the end of extract_servers_from_page
PagePass ==
    /\ dPhase = "input"
    /\ dPage' = UniqueServers(dIn)
    /\ dPhase' = "page"
    /\ UNCHANGED <<dIn, dFinal, hvars, xvars, rvars>>

\* save_data's pass over an accumulation holding that one page
FinalPass ==
    /\ dPhase = "page"
    /\ dFinal' = SaveUnique(dPage)
    /\ dPhase' = "final"
    /\ UNCHANGED <<dIn, dPage, hvars, xvars, rvars>>

DNext == PagePass \/ FinalPass

SpecDedupe == DInit /\ [][DNext]_vars

(***************************************************************************)
(* One link through the loop body of lines 55-95                           *)
(***************************************************************************)
Tokens == {"/", "server", "acme", "tool-a", "tool-b"}

Origin == <<"https:", "/", "/", "mcp.so">>

HrefToolA == <<"/", "server", "/", "acme", "/", "tool-a">>
HrefToolB == <<"/", "server", "/", "acme", "/", "tool-b">>

\* relative hrefs, and absolute hrefs at the site's origin
HInit ==
    /\ href \in SeqsUpTo(Tokens, MaxHrefLen)
                \cup {Origin \o h : h \in SeqsUpTo(Tokens, MaxHrefLen)}
    /\ hRec = <<>>
    /\ hPhase = "link"
    \* the rest of the program is not exercised
    /\ dIn = <<>> /\ dPage = <<>> /\ dFinal = <<>> /\ dPhase = "idle"
    /\ xPage = [anchors |-> <<>>, scripts |-> <<>>]
    /\ xResult = [raised |-> FALSE, servers |-> <<>>]
    /\ xPhase = "idle"
    /\ mode = "all" /\ max_pages = 0 /\ output = "mcp-so-servers.json"
    /\ pc = "idle" /\ exc = "none" /\ caught = "none" /\ exitStatus = 0
    /\ driver = "none" /\ servers = <<>> /\ current_page = 0
    /\ files = [f \in {"mcp-so-servers.json", "mcp-so-partial.json", "out.json"}
                    |-> NoFile]
    /\ interrupts = 0 /\ interruptedAt = "nowhere" /\ accumulated = <<>>
    /\ extracted = <<>> /\ requested = <<>> /\ navigatedBy = "none"

\* the records lines 53-95 produce for the one anchor
ParseLink ==
    /\ hPhase = "link"
    /\ hRec' = AnchorServers(<<[href |-> href, text |-> "n",
                               container |-> NoContainer]>>)
    /\ hPhase' = "parsed"
    /\ UNCHANGED <<href, dvars, xvars, rvars>>

HNext == ParseLink

SpecHref == HInit /\ [][HNext]_vars

(***************************************************************************)
(* extract_servers_from_page on one page                                   *)
(***************************************************************************)
CardA == [found |-> TRUE, desc |-> "desc a", author |-> "acme",
          codes |-> <<"ls", "npx a">>]

LinkA == [href |-> HrefToolA, text |-> "A", container |-> CardA]
LinkA2 == [href |-> HrefToolA, text |-> "A again", container |-> NoContainer]
LinkB == [href |-> Origin \o HrefToolB, text |-> "B", container |-> NoContainer]
LinkAll == [href |-> <<"/", "servers">>, text |-> "All", container |-> NoContainer]
LinkAbout == [href |-> <<"/", "about">>, text |-> "About", container |-> NoContainer]
LinkShort == [href |-> <<"/", "server", "/", "acme">>, text |-> "",
              container |-> NoContainer]

AnchorPool == {LinkA, LinkA2, LinkB, LinkAll, LinkAbout, LinkShort}

RecC == [name |-> "C", url |-> "https://mcp.so/server/c/acme"]
RecNameOnly == [name |-> "D"]
RecFalsyUrl == [name |-> "E", url |-> ""]
RecListUrl == [name |-> "F", url |-> PyList]

NextData(list) ==
    [parses |-> TRUE,
     data |-> JDict([props |-> JDict([pageProps |-> JDict([servers |-> list])])])]

ScriptPool ==
    {[parses |-> FALSE, data |-> JNull],
     [parses |-> TRUE, data |-> JNull],
     [parses |-> TRUE, data |-> JNum],
     [parses |-> TRUE, data |-> JList(<<>>)],
     [parses |-> TRUE, data |-> JDict([buildId |-> JNum])],
     [parses |-> TRUE, data |-> JDict([props |-> JNull])],
     [parses |-> TRUE, data |-> JDict([props |-> JDict([other |-> JNum])])],
     [parses |-> TRUE, data |-> JDict([props |-> JDict([pageProps |-> JNull])])],
     [parses |-> TRUE,
      data |-> JDict([props |-> JDict([pageProps |-> JDict([total |-> JNum])])])],
     NextData(JNull),
     NextData(JList(<<RecC, RecNameOnly>>)),
     NextData(JList(<<RecFalsyUrl>>)),
     NextData(JList(<<NonDict("x")>>)),
     NextData(JList(<<RecListUrl>>)),
     NextData(JDict([total |-> JNum])),
     NextData(JStr("ab"))}

XInit ==
    /\ xPage \in [anchors : SeqsUpTo(AnchorPool, MaxAnchors),
                  scripts : SeqsUpTo(ScriptPool, MaxScripts)]
    /\ xResult = [raised |-> FALSE, servers |-> <<>>]
    /\ xPhase = "page"
    \* the rest of the program is not exercised
    /\ dIn = <<>> /\ dPage = <<>> /\ dFinal = <<>> /\ dPhase = "idle"
    /\ href = <<>> /\ hRec = <<>> /\ hPhase = "idle"
    /\ mode = "all" /\ max_pages = 0 /\ output = "mcp-so-servers.json"
    /\ pc = "idle" /\ exc = "none" /\ caught = "none" /\ exitStatus = 0
    /\ driver = "none" /\ servers = <<>> /\ current_page = 0
    /\ files = [f \in {"mcp-so-servers.json", "mcp-so-partial.json", "out.json"}
                    |-> NoFile]
    /\ interrupts = 0 /\ interruptedAt = "nowhere" /\ accumulated = <<>>
    /\ extracted = <<>> /\ requested = <<>> /\ navigatedBy = "none"

Extract ==
    /\ xPhase = "page"
    /\ xResult' = ExtractServers(xPage)
    /\ xPhase' = "extracted"
    /\ UNCHANGED <<xPage, dvars, hvars, rvars>>

XNext == Extract

SpecExtract == XInit /\ [][XNext]_vars

(***************************************************************************)
(* main(), run(), navigate_all_pages(), save_data()                        *)
(***************************************************************************)
DefaultFile == "mcp-so-servers.json"
PartialFile == "mcp-so-partial.json"
CustomFile == "out.json"

LinkB2 == [href |-> Origin \o HrefToolB, text |-> "B again", container |-> NoContainer]

\* the pages the browser may show
PageEmpty == [anchors |-> <<>>, scripts |-> <<>>]
PageAB == [anchors |-> <<LinkA, LinkB>>, scripts |-> <<>>]
PageBC == [anchors |-> <<LinkB2>>, scripts |-> <<NextData(JList(<<RecC>>))>>]
PageBad == [anchors |-> <<LinkA>>, scripts |-> <<NextData(JList(<<NonDict("x")>>))>>]

PagePool == {PageEmpty, PageAB, PageBC, PageBad}

RInit ==
    /\ mode \in {"all", "single"}
    /\ max_pages \in (0 - 1)..MaxPages
    /\ output \in {DefaultFile, CustomFile}
    /\ pc = "setup" /\ exc = "none" /\ caught = "none" /\ exitStatus = 0
    /\ driver = "none" /\ servers = <<>> /\ current_page = 0
    /\ files = [f \in {DefaultFile, PartialFile, CustomFile} |-> NoFile]
    /\ interrupts = 0 /\ interruptedAt = "nowhere" /\ accumulated = <<>>
    /\ extracted = <<>> /\ requested = <<>> /\ navigatedBy = "none"
    \* the rest of the program is not exercised
    /\ dIn = <<>> /\ dPage = <<>> /\ dFinal = <<>> /\ dPhase = "idle"
    /\ href = <<>> /\ hRec = <<>> /\ hPhase = "idle"
    /\ xPage = [anchors |-> <<>>, scripts |-> <<>>]
    /\ xResult = [raised |-> FALSE, servers |-> <<>>]
    /\ xPhase = "idle"

ReleaseNever(d) == d

\* lines 217-218: if self.driver: self.driver.quit()
Release(d) == IF d = "open" THEN "quit" ELSE d

ExtendFront(list, page_servers) == page_servers \o list

\* line 153: self.servers.extend(page_servers)
Extend(list, page_servers) == list \o page_servers

LoopGuardOffByOne(page, bound) == page <= bound + 1

\* line 130: while current_page <= max_pages
LoopGuard(page, bound) == page <= bound

AfterExtractNoBreak(page_servers, retried) ==
    IF page_servers # <<>> \/ retried THEN "click" ELSE "retry_sleep"

\* lines 145-153: where the loop goes after an extraction
AfterExtract(page_servers, retried) ==
    IF page_servers # <<>> THEN "click"
    ELSE IF retried THEN "save"
    ELSE "retry_sleep"

\* lines 178-188: the file save_data leaves behind
Saved(list) == [exists |-> TRUE, complete |-> TRUE, data |-> SaveUnique(list)]

\* open(filename, 'w') done, json.dump not finished
Truncated == [exists |-> TRUE, complete |-> FALSE, data |-> <<>>]

\* an exception leaves a statement of run()'s try block: line 216
Raise(e) == exc' = e /\ pc' = "finally"

\* line 207 (lines 26-33)
SetupDriver ==
    /\ pc = "setup"
    /\ driver' = "open"
    /\ pc' = IF mode = "all" THEN "get_first" ELSE "single_get"
    /\ UNCHANGED <<mode, max_pages, output, exc, caught, exitStatus, servers,
                   current_page, files, interrupts, interruptedAt, accumulated,
                   extracted, requested, navigatedBy, dvars, hvars, xvars>>

\* uc.Chrome() raises (no driver) or implicitly_wait raises (driver owned)
FailSetup ==
    /\ pc = "setup"
    /\ driver' \in {"none", "open"}
    /\ Raise("Exception")
    /\ UNCHANGED <<mode, max_pages, output, caught, exitStatus, servers,
                   current_page, files, interrupts, interruptedAt, accumulated,
                   extracted, requested, navigatedBy, dvars, hvars, xvars>>

\* lines 122-127
GetFirst ==
    /\ pc = "get_first"
    /\ current_page' = 1
    /\ requested' = Append(requested, 1)
    /\ navigatedBy' = "get"
    /\ pc' = "cf_sleep"
    /\ UNCHANGED <<mode, max_pages, output, exc, caught, exitStatus, driver,
                   servers, files, interrupts, interruptedAt, accumulated,
                   extracted, dvars, hvars, xvars>>

\* lines 194-197
SingleGet ==
    /\ pc = "single_get"
    /\ requested' = Append(requested, 1)
    /\ navigatedBy' = "get"
    /\ pc' = "cf_sleep"
    /\ UNCHANGED <<mode, max_pages, output, exc, caught, exitStatus, driver,
                   servers, current_page, files, interrupts, interruptedAt,
                   accumulated, extracted, dvars, hvars, xvars>>

\* line 37
CloudflareSleep ==
    /\ pc = "cf_sleep"
    /\ pc' = "cf_check"
    /\ UNCHANGED <<mode, max_pages, output, exc, caught, exitStatus, driver,
                   servers, current_page, files, interrupts, interruptedAt,
                   accumulated, extracted, requested, navigatedBy, dvars,
                   hvars, xvars>>

AfterCloudflare == IF mode = "all" THEN "loop" ELSE "single_extract"

\* lines 40-45: whatever happens inside the try, the function returns
CloudflareCheck ==
    /\ pc = "cf_check"
    /\ pc' = AfterCloudflare
    /\ UNCHANGED <<mode, max_pages, output, exc, caught, exitStatus, driver,
                   servers, current_page, files, interrupts, interruptedAt,
                   accumulated, extracted, requested, navigatedBy, dvars,
                   hvars, xvars>>

\* line 130, loop entered
LoopEnter ==
    /\ pc = "loop"
    /\ LoopGuard(current_page, max_pages)
    /\ pc' = "wait"
    /\ UNCHANGED <<mode, max_pages, output, exc, caught, exitStatus, driver,
                   servers, current_page, files, interrupts, interruptedAt,
                   accumulated, extracted, requested, navigatedBy, dvars,
                   hvars, xvars>>

\* line 130, bound reached: line 173, then save_data
LoopExit ==
    /\ pc = "loop"
    /\ ~LoopGuard(current_page, max_pages)
    /\ pc' = "save"
    /\ UNCHANGED <<mode, max_pages, output, exc, caught, exitStatus, driver,
                   servers, current_page, files, interrupts, interruptedAt,
                   accumulated, extracted, requested, navigatedBy, dvars,
                   hvars, xvars>>

\* lines 134-139: an anchor appears or the wait times out
WaitForContent ==
    /\ pc = "wait"
    /\ pc' = "extract"
    /\ UNCHANGED <<mode, max_pages, output, exc, caught, exitStatus, driver,
                   servers, current_page, files, interrupts, interruptedAt,
                   accumulated, extracted, requested, navigatedBy, dvars,
                   hvars, xvars>>

\* the extraction of lines 142 / 148 on the page the browser shows
ExtractOn(page, retried) ==
    LET r == ExtractServers(page) IN
    IF r.raised
    THEN /\ Raise("Exception")
         /\ UNCHANGED <<servers, extracted>>
    ELSE /\ extracted' = Append(extracted,
                                [page |-> current_page, servers |-> r.servers])
         /\ pc' = AfterExtract(r.servers, retried)
         /\ servers' = IF r.servers # <<>> THEN Extend(servers, r.servers)
                       ELSE servers
         /\ exc' = exc

\* lines 142-153, first extraction of the page
ExtractPage ==
    /\ pc = "extract"
    /\ \E page \in PagePool : ExtractOn(page, FALSE)
    /\ UNCHANGED <<mode, max_pages, output, caught, exitStatus, driver,
                   current_page, files, interrupts, interruptedAt, accumulated,
                   requested, navigatedBy, dvars, hvars, xvars>>

\* line 147
RetrySleep ==
    /\ pc = "retry_sleep"
    /\ pc' = "retry_extract"
    /\ UNCHANGED <<mode, max_pages, output, exc, caught, exitStatus, driver,
                   servers, current_page, files, interrupts, interruptedAt,
                   accumulated, extracted, requested, navigatedBy, dvars,
                   hvars, xvars>>

\* lines 148-153
RetryExtract ==
    /\ pc = "retry_extract"
    /\ \E page \in PagePool : ExtractOn(page, TRUE)
    /\ UNCHANGED <<mode, max_pages, output, caught, exitStatus, driver,
                   current_page, files, interrupts, interruptedAt, accumulated,
                   requested, navigatedBy, dvars, hvars, xvars>>

\* lines 160-165 and 171: the next link is found and clicked
ClickNext ==
    /\ pc = "click"
    /\ requested' = Append(requested, current_page + 1)
    /\ navigatedBy' = "click"
    /\ current_page' = current_page + 1
    /\ pc' = "loop"
    /\ UNCHANGED <<mode, max_pages, output, exc, caught, exitStatus, driver,
                   servers, files, interrupts, interruptedAt, accumulated,
                   extracted, dvars, hvars, xvars>>

\* lines 160-166: find_element or click raises, the except clause is entered
ClickFails ==
    /\ pc = "click"
    /\ pc' = "direct_get"
    /\ UNCHANGED <<mode, max_pages, output, exc, caught, exitStatus, driver,
                   servers, current_page, files, interrupts, interruptedAt,
                   accumulated, extracted, requested, navigatedBy, dvars,
                   hvars, xvars>>

\* lines 168-171
DirectGet ==
    /\ pc = "direct_get"
    /\ requested' = Append(requested, current_page + 1)
    /\ navigatedBy' = "get"
    /\ current_page' = current_page + 1
    /\ pc' = "loop"
    /\ UNCHANGED <<mode, max_pages, output, exc, caught, exitStatus, driver,
                   servers, files, interrupts, interruptedAt, accumulated,
                   extracted, dvars, hvars, xvars>>

\* line 211 (lines 175-190)
SaveData ==
    /\ pc = "save"
    /\ files' = [files EXCEPT ![DefaultFile] = Saved(servers)]
    /\ pc' = "finally"
    /\ UNCHANGED <<mode, max_pages, output, exc, caught, exitStatus, driver,
                   servers, current_page, interrupts, interruptedAt,
                   accumulated, extracted, requested, navigatedBy, dvars,
                   hvars, xvars>>

\* lines 200-202 and 213-214: the records are printed, not kept
SingleExtract ==
    /\ pc = "single_extract"
    /\ \E page \in PagePool :
           IF ExtractServers(page).raised
           THEN Raise("Exception")
           ELSE pc' = "finally" /\ exc' = exc
    /\ UNCHANGED <<mode, max_pages, output, caught, exitStatus, driver,
                   servers, current_page, files, interrupts, interruptedAt,
                   accumulated, extracted, requested, navigatedBy, dvars,
                   hvars, xvars>>

\* driver.get (127, 168, 197) or driver.page_source (50) raises
FailInRun ==
    /\ pc \in {"get_first", "single_get", "extract", "retry_extract",
               "single_extract", "direct_get"}
    /\ Raise("Exception")
    /\ UNCHANGED <<mode, max_pages, output, caught, exitStatus, driver,
                   servers, current_page, files, interrupts, interruptedAt,
                   accumulated, extracted, requested, navigatedBy, dvars,
                   hvars, xvars>>

\* open() or json.dump raises in save_data (187-188)
FailSave ==
    /\ pc = "save"
    /\ files' \in {files, [files EXCEPT ![DefaultFile] = Truncated]}
    /\ Raise("Exception")
    /\ UNCHANGED <<mode, max_pages, output, caught, exitStatus, driver,
                   servers, current_page, interrupts, interruptedAt,
                   accumulated, extracted, requested, navigatedBy, dvars,
                   hvars, xvars>>

\* lines 216-218; quit() returns (undetected_chromedriver's quit catches
\* the exceptions of its own steps)
Finally ==
    /\ pc = "finally"
    /\ driver' = Release(driver)
    /\ pc' = IF exc = "none" THEN "post" ELSE "handler"
    /\ UNCHANGED <<mode, max_pages, output, exc, caught, exitStatus, servers,
                   current_page, files, interrupts, interruptedAt, accumulated,
                   extracted, requested, navigatedBy, dvars, hvars, xvars>>

\* lines 257-263
Post ==
    /\ pc = "post"
    /\ files' = IF mode = "all" /\ output # DefaultFile
                THEN [files EXCEPT ![output] = files[DefaultFile],
                                   ![DefaultFile] = NoFile]
                ELSE files
    /\ pc' = "done"
    /\ exitStatus' = 0
    /\ UNCHANGED <<mode, max_pages, output, exc, caught, driver, servers,
                   current_page, interrupts, interruptedAt, accumulated,
                   extracted, requested, navigatedBy, dvars, hvars, xvars>>

\* shutil.move raises (259)
FailPost ==
    /\ pc = "post"
    /\ mode = "all" /\ output # DefaultFile
    /\ exc' = "Exception"
    /\ pc' = "handler"
    /\ UNCHANGED <<mode, max_pages, output, caught, exitStatus, driver,
                   servers, current_page, files, interrupts, interruptedAt,
                   accumulated, extracted, requested, navigatedBy, dvars,
                   hvars, xvars>>

\* lines 265-269
HandleInterrupt ==
    /\ pc = "handler"
    /\ exc = "KeyboardInterrupt"
    /\ files' = IF servers # <<>>
                THEN [files EXCEPT ![PartialFile] = Saved(servers)]
                ELSE files
    /\ caught' = "KeyboardInterrupt"
    /\ exc' = "none"
    /\ exitStatus' = 0
    /\ pc' = "done"
    /\ UNCHANGED <<mode, max_pages, output, driver, servers, current_page,
                   interrupts, interruptedAt, accumulated, extracted,
                   requested, navigatedBy, dvars, hvars, xvars>>

\* line 272, and the interpreter's status for an exception leaving main()
ExitCode(e) == IF e = "Exception" THEN 1 ELSE 130

\* lines 270-272
HandleError ==
    /\ pc = "handler"
    /\ exc = "Exception"
    /\ caught' = "Exception"
    /\ exc' = "none"
    /\ exitStatus' = ExitCode("Exception")
    /\ pc' = "done"
    /\ UNCHANGED <<mode, max_pages, output, driver, servers, current_page,
                   files, interrupts, interruptedAt, accumulated, extracted,
                   requested, navigatedBy, dvars, hvars, xvars>>

\* save_data raises inside the KeyboardInterrupt handler (268): nothing
\* encloses it, the exception leaves main()
FailHandler ==
    /\ pc = "handler"
    /\ exc = "KeyboardInterrupt"
    /\ servers # <<>>
    /\ files' \in {files, [files EXCEPT ![PartialFile] = Truncated]}
    /\ caught' = "none"
    /\ exc' = "Exception"
    /\ exitStatus' = ExitCode("Exception")
    /\ pc' = "done"
    /\ UNCHANGED <<mode, max_pages, output, driver, servers, current_page,
                   interrupts, interruptedAt, accumulated, extracted,
                   requested, navigatedBy, dvars, hvars, xvars>>

\* KeyboardInterrupt raised inside one of the bare except: blocks (40-45,
\* 134-139, 158-166): the handler runs and the run goes on
InterruptSwallowed ==
    /\ interrupts < MaxInterrupts
    /\ pc \in {"cf_check", "wait", "click"}
    /\ interrupts' = interrupts + 1
    /\ interruptedAt' = pc
    /\ accumulated' = servers
    /\ pc' = CASE pc = "cf_check" -> AfterCloudflare
               [] pc = "wait" -> "extract"
               [] pc = "click" -> "direct_get"
    /\ UNCHANGED <<mode, max_pages, output, exc, caught, exitStatus, driver,
                   servers, current_page, files, extracted, requested,
                   navigatedBy, dvars, hvars, xvars>>

\* KeyboardInterrupt raised inside the try of lines 100-107 while script
\* block k is processed: the block is skipped and the extraction goes on
InterruptInJson ==
    /\ interrupts < MaxInterrupts
    /\ pc \in {"extract", "retry_extract"}
    /\ interrupts' = interrupts + 1
    /\ interruptedAt' = pc
    /\ accumulated' = servers
    /\ \E page \in PagePool : \E k \in 1..Len(page.scripts) :
           ExtractOn([page EXCEPT !.scripts[k] = [parses |-> FALSE, data |-> JNull]],
                     pc = "retry_extract")
    /\ UNCHANGED <<mode, max_pages, output, caught, exitStatus, driver,
                   current_page, files, requested, navigatedBy, dvars, hvars,
                   xvars>>

\* KeyboardInterrupt raised elsewhere in run()'s try block
InterruptInRun ==
    /\ interrupts < MaxInterrupts
    /\ pc \in {"setup", "get_first", "single_get", "cf_sleep", "loop", "extract",
               "retry_sleep", "retry_extract", "direct_get", "save",
               "single_extract"}
    /\ interrupts' = interrupts + 1
    /\ interruptedAt' = pc
    /\ accumulated' = servers
    /\ driver' \in IF pc = "setup" THEN {"none", "open"} ELSE {driver}
    /\ files' \in IF pc = "save"
                  THEN {files, [files EXCEPT ![DefaultFile] = Truncated]}
                  ELSE {files}
    /\ Raise("KeyboardInterrupt")
    /\ UNCHANGED <<mode, max_pages, output, caught, exitStatus, servers,
                   current_page, extracted, requested, navigatedBy, dvars,
                   hvars, xvars>>

\* KeyboardInterrupt raised in the finally clause (217-218): it replaces
\* the exception in flight, quit() may not have completed
InterruptInFinally ==
    /\ interrupts < MaxInterrupts
    /\ pc = "finally"
    /\ interrupts' = interrupts + 1
    /\ interruptedAt' = pc
    /\ accumulated' = servers
    /\ driver' \in {driver, Release(driver)}
    /\ exc' = "KeyboardInterrupt"
    /\ pc' = "handler"
    /\ UNCHANGED <<mode, max_pages, output, caught, exitStatus, servers,
                   current_page, files, extracted, requested, navigatedBy,
                   dvars, hvars, xvars>>

\* KeyboardInterrupt raised in main() after run() returned (257-263)
InterruptInMain ==
    /\ interrupts < MaxInterrupts
    /\ pc = "post"
    /\ interrupts' = interrupts + 1
    /\ interruptedAt' = pc
    /\ accumulated' = servers
    /\ exc' = "KeyboardInterrupt"
    /\ pc' = "handler"
    /\ UNCHANGED <<mode, max_pages, output, caught, exitStatus, driver,
                   servers, current_page, files, extracted, requested,
                   navigatedBy, dvars, hvars, xvars>>

\* KeyboardInterrupt raised inside an except clause of main (266-272): it
\* leaves main()
InterruptInHandler ==
    /\ interrupts < MaxInterrupts
    /\ pc = "handler"
    /\ interrupts' = interrupts + 1
    /\ interruptedAt' = pc
    /\ accumulated' = servers
    /\ files' \in IF exc = "KeyboardInterrupt" /\ servers # <<>>
                  THEN {files, [files EXCEPT ![PartialFile] = Truncated]}
                  ELSE {files}
    /\ caught' = "none"
    /\ exc' = "KeyboardInterrupt"
    /\ exitStatus' = ExitCode("KeyboardInterrupt")
    /\ pc' = "done"
    /\ UNCHANGED <<mode, max_pages, output, driver, servers, current_page,
                   extracted, requested, navigatedBy, dvars, hvars, xvars>>

RNext ==
    \/ SetupDriver \/ FailSetup \/ GetFirst \/ SingleGet
    \/ CloudflareSleep \/ CloudflareCheck
    \/ LoopEnter \/ LoopExit \/ WaitForContent
    \/ ExtractPage \/ RetrySleep \/ RetryExtract
    \/ ClickNext \/ ClickFails \/ DirectGet
    \/ SaveData \/ SingleExtract \/ FailInRun \/ FailSave
    \/ Finally \/ Post \/ FailPost
    \/ HandleInterrupt \/ HandleError \/ FailHandler
    \/ InterruptSwallowed \/ InterruptInJson \/ InterruptInRun
    \/ InterruptInFinally \/ InterruptInMain \/ InterruptInHandler

Spec == RInit /\ [][RNext]_vars

\* every statement returns or raises: a run goes on until the process exits
FairSpec == Spec /\ WF_vars(RNext)

(***************************************************************************)
(* Properties of the extraction                                            *)
(***************************************************************************)
Max(S) == CHOOSE x \in S : \A y \in S : y <= x
Min(S) == CHOOSE x \in S : \A y \in S : x <= y

\* h without its leading and trailing "/"
Trimmed(h) ==
    LET idx == {i \in 1..Len(h) : h[i] # "/"}
    IN IF idx = {} THEN <<>> ELSE SubSeq(h, Min(idx), Max(idx))

Slashes(t) == {i \in 1..Len(t) : t[i] = "/"}
NumParts(t) == Cardinality(Slashes(t)) + 1
LastPart(t) == Join(SubSeq(t, Max(Slashes(t)) + 1, Len(t)))
SecondLastPart(t) ==
    LET last == Max(Slashes(t))
        prev == Max({0} \cup {i \in Slashes(t) : i < last})
    IN Join(SubSeq(t, prev + 1, last - 1))

\* the path of an href: an absolute href without its scheme and host
PathOf(h) ==
    IF Len(h) >= 4 /\ SubSeq(h, 1, 4) = Origin THEN SubSeq(h, 5, Len(h)) ELSE h

NonEmptySegments(h) == SelectSeq(Split(Strip(PathOf(h))), LAMBDA p : p # "")

HasSlug(rec, slug, author) ==
    /\ "slug" \in DOMAIN rec /\ rec["slug"] = slug
    /\ "authorFromUrl" \in DOMAIN rec /\ rec["authorFromUrl"] = author

NoSlug(rec) == "slug" \notin DOMAIN rec /\ "authorFromUrl" \notin DOMAIN rec

\* C8 as stated: with at least three non-empty path segments the slug is
\* the last segment and authorFromUrl the one before it, so that
\* /server/acme/tool-a gives ("tool-a", "acme") and /server/acme/tool-b
\* gives ("tool-b", "acme"); with fewer than three segments neither is set.
C8_SlugIsLastSegment ==
    (hPhase = "parsed" /\ hRec # <<>>) =>
        LET segs == NonEmptySegments(href)
            n == Len(segs)
        IN /\ href = HrefToolA => HasSlug(hRec[1], "tool-a", "acme")
           /\ href = HrefToolB => HasSlug(hRec[1], "tool-b", "acme")
           /\ n >= 3 => HasSlug(hRec[1], segs[n], segs[n - 1])
           /\ n < 3 => NoSlug(hRec[1])

\* C8 amended: slug and authorFromUrl are set exactly when the href,
\* stripped of leading and trailing slashes and split on "/", has at least
\* three parts (empty parts and the scheme and host of an absolute href
\* count); slug is then the second to last part and authorFromUrl the last,
\* so that /server/acme/tool-a gives ("acme", "tool-a") and
\* /server/acme/tool-b gives ("acme", "tool-b").
C8_SlugIsSecondLastPart ==
    (hPhase = "parsed" /\ hRec # <<>>) =>
        LET t == Trimmed(href) IN
        /\ Len(hRec) = 1
        /\ href = HrefToolA => HasSlug(hRec[1], "acme", "tool-a")
        /\ href = HrefToolB => HasSlug(hRec[1], "acme", "tool-b")
        /\ NumParts(t) >= 3 => HasSlug(hRec[1], SecondLastPart(t), LastPart(t))
        /\ NumParts(t) < 3 => NoSlug(hRec[1])

C8_Witness ==
    /\ hPhase = "parsed"
    /\ href = HrefToolA
    /\ hRec = <<[name |-> "n", url |-> "https://mcp.so/server/acme/tool-a",
                 slug |-> "acme", authorFromUrl |-> "tool-a"]>>

\* membership in a sequence
Has(s, x) == \E i \in 1..Len(s) : s[i] = x

\* C9: whatever the embedded JSON blocks hold (malformed text, missing or
\* wrongly typed nested keys, a server list of an unexpected shape),
\* extract_servers_from_page does not raise and still returns the records
\* derived from the anchors.
C9_BlocksNeverRaise ==
    xPhase = "extracted" =>
        /\ ~xResult.raised
        /\ \A i \in 1..Len(UniqueServers(AnchorServers(xPage.anchors))) :
               Has(xResult.servers, UniqueServers(AnchorServers(xPage.anchors))[i])

(***************************************************************************)
(* Properties of a run                                                     *)
(***************************************************************************)
\* index of the first record of s bearing key k
FirstIdx(s, k) ==
    CHOOSE j \in 1..Len(s) :
        Key(s[j]) = k /\ \A m \in 1..(j - 1) : Key(s[m]) # k

\* the subsequence of s at the indices of I, from index i on
RECURSIVE Pick(_, _, _)
Pick(s, I, i) ==
    IF i > Len(s) THEN <<>>
    ELSE IF i \in I THEN <<s[i]>> \o Pick(s, I, i + 1)
    ELSE Pick(s, I, i + 1)

\* first-occurrence-wins deduplication, stated on the indices kept
FirstWinsRef(s) ==
    Pick(s,
         {i \in 1..Len(s) :
             /\ Truthy(Key(s[i]))
             /\ \A m \in 1..(i - 1) : Key(s[m]) # Key(s[i])},
         1)

\* the page results of the loop, concatenated in the order of extraction
RECURSIVE PageResults(_)
PageResults(log) ==
    IF log = <<>> THEN <<>> ELSE Head(log).servers \o PageResults(Tail(log))

RecA == [name |-> "A", url |-> "https://mcp.so/server/acme/tool-a",
         description |-> "desc a", author |-> "acme",
         installCommand |-> "npx a", slug |-> "acme",
         authorFromUrl |-> "tool-a"]
RecB == [name |-> "B", url |-> "https://mcp.so/server/acme/tool-b",
         slug |-> "acme", authorFromUrl |-> "tool-b"]
RecB2 == [name |-> "B again", url |-> "https://mcp.so/server/acme/tool-b",
          slug |-> "acme", authorFromUrl |-> "tool-b"]

PagesABthenBC ==
    extracted = <<[page |-> 1, servers |-> <<RecA, RecB>>],
                  [page |-> 2, servers |-> <<RecB2, RecC>>]>>

\* the run in mode "all" completed: run() returned and main fell through
FullRunDone == pc = "done" /\ mode = "all" /\ caught = "none" /\ exitStatus = 0

\* C1: after a full run the output file holds the first-occurrence-wins
\* deduplication of the page results concatenated in page order; when page 1
\* yields A and B and page 2 yields B (same url) and C, it holds [A, B, C].
C1_FullRunOutput ==
    FullRunDone =>
        /\ files[output].exists /\ files[output].complete
        /\ files[output].data = FirstWinsRef(PageResults(extracted))
        /\ PagesABthenBC => files[output].data = <<RecA, RecB, RecC>>

C1_Witness ==
    /\ FullRunDone
    /\ PagesABthenBC
    /\ output = CustomFile
    /\ files[CustomFile].data = <<RecA, RecB, RecC>>
    /\ ~files[DefaultFile].exists

\* positions inside run()
InRun ==
    {"setup", "get_first", "cf_sleep", "cf_check", "loop", "wait", "extract",
     "retry_sleep", "retry_extract", "click", "direct_get", "save", "finally"}

\* C2: a KeyboardInterrupt arriving at any point of a full run is never
\* swallowed: the records accumulated so far are saved to
\* mcp-so-partial.json before the process exits.
C2_InterruptSavesPartial ==
    (/\ pc = "done" /\ mode = "all" /\ exitStatus = 0
     /\ interrupts > 0 /\ interruptedAt \in InRun
     /\ accumulated # <<>>)
    => /\ caught = "KeyboardInterrupt"
       /\ files[PartialFile].exists /\ files[PartialFile].complete
       /\ files[PartialFile].data = FirstWinsRef(accumulated)

LastResult(log) == log[Len(log)].servers

\* C6: when the extraction of a page and its retry both return nothing the
\* loop ends without an exception, adds nothing, asks for no further page
\* and save_data then persists what the earlier pages gave; when the retry
\* returns records they are accumulated and the loop goes on.
C6_Exhaustion ==
    [][/\ (pc = "retry_extract" /\ extracted' # extracted) =>
              IF LastResult(extracted') = <<>>
              THEN /\ LastResult(extracted) = <<>>
                   /\ pc' = "save" /\ exc' = "none"
                   /\ servers' = servers /\ requested' = requested
              ELSE /\ pc' = "click"
                   /\ servers' = servers \o LastResult(extracted')
       /\ (pc = "save" /\ pc' = "finally" /\ exc' = "none") =>
              /\ files'[DefaultFile].exists /\ files'[DefaultFile].complete
              /\ files'[DefaultFile].data = FirstWinsRef(servers)
       /\ pc \in {"save", "finally", "post", "handler", "done"} =>
              requested' = requested /\ extracted' = extracted
      ]_vars

C6_Witness ==
    /\ FullRunDone
    /\ max_pages = 2
    /\ Len(extracted) = 3
    /\ extracted[1] = [page |-> 1, servers |-> <<RecA, RecB>>]
    /\ extracted[2] = [page |-> 2, servers |-> <<>>]
    /\ extracted[3] = [page |-> 2, servers |-> <<>>]
    /\ Len(requested) = 2
    /\ files[output].data = <<RecA, RecB>>

\* C7: an exception raised in run() reaches main's handler only after the
\* driver, if one was created, has been quit, and the process then exits
\* with a non-zero status.
C7_ReleaseBeforeFatal ==
    /\ (pc = "handler" /\ exc = "Exception") => driver # "open"
    /\ (pc = "done" /\ caught = "Exception") =>
           driver # "open" /\ exitStatus # 0

C7_Witness ==
    /\ pc = "done"
    /\ caught = "Exception"
    /\ driver = "quit"
    /\ exitStatus = 1
    /\ servers # <<>>
    /\ ~files[DefaultFile].exists

Contributing(log) == {i \in 1..Len(log) : log[i].servers # <<>>}

LoopBounded ==
    mode = "all" =>
        /\ \A i \in 1..Len(extracted) :
               /\ extracted[i].page >= 1
               /\ extracted[i].page <= max_pages
               /\ i = 1 => extracted[i].page = 1
               /\ i > 1 => extracted[i].page \in
                               {extracted[i - 1].page, extracted[i - 1].page + 1}
               /\ (i > 1 /\ extracted[i].page = extracted[i - 1].page) =>
                      extracted[i - 1].servers = <<>>
        /\ \A i, j \in Contributing(extracted) :
               i # j => extracted[i].page # extracted[j].page
        /\ Cardinality(Contributing(extracted)) <= IF max_pages > 0 THEN max_pages ELSE 0
        /\ (FullRunDone /\ max_pages <= 0) =>
               /\ extracted = <<>>
               /\ files[output] = [exists |-> TRUE, complete |-> TRUE, data |-> <<>>]

\* C10: the multi-page loop terminates and respects max_pages: the pages
\* extracted are 1, 2, ... in steps of one, at most max_pages pages
\* contribute, no page beyond max_pages is extracted, and with
\* max_pages <= 0 nothing is extracted and an empty array is persisted.
C10_BoundedLoop == []LoopBounded /\ <>(pc = "done")

C10_Witness ==
    /\ FullRunDone
    /\ max_pages = 2
    /\ Len(extracted) = 2
    /\ extracted[2].page = 2
    /\ extracted[2].servers # <<>>
    /\ requested = <<1, 2, 3>>

(***************************************************************************)
(* Properties of the deduplication passes                                  *)
(***************************************************************************)
StableFirstWins(in, out) ==
    /\ \A i, j \in 1..Len(out) : i # j => Key(out[i]) # Key(out[j])
    /\ \A i \in 1..Len(out) :
           \E j \in 1..Len(in) :
               /\ in[j] = out[i]
               /\ \A m \in 1..(j - 1) : Key(in[m]) # Key(out[i])
    /\ \A i, j \in 1..Len(out) :
           i < j => FirstIdx(in, Key(out[i])) < FirstIdx(in, Key(out[j]))

ClaimedDedupe(in) ==
    Pick(in,
         {i \in 1..Len(in) :
             /\ KeyTruthyUrl(in[i]) # ""
             /\ \A m \in 1..(i - 1) : KeyTruthyUrl(in[m]) # KeyTruthyUrl(in[i])},
         1)

\* C4: the identity key is the url if present and truthy, else the name if
\* present and truthy, else the empty string, and a record is kept exactly
\* when that key is non-empty and not yet seen (so a record with a falsy
\* url and a non-empty name is retained under its name).
C4_TruthyUrlElseName ==
    dPhase \in {"page", "final"} => dPage = ClaimedDedupe(dIn)

\* C5: deduplication is idempotent: a second pass over the output of a pass
\* returns it unchanged, in particular save_data's pass over an accumulation
\* of one already deduplicated page.
C5_Idempotent ==
    /\ dPhase \in {"page", "final"} => UniqueServers(dPage) = dPage
    /\ dPhase = "final" => dFinal = dPage /\ SaveUnique(dFinal) = dFinal

C5_Witness ==
    /\ dPhase = "final"
    /\ Len(dIn) = 3
    /\ Len(dPage) = 2
    /\ dFinal = dPage

====
